---- MODULE Spec2Model ----
(***************************************************************************)
(* Gamma-to-linear conversion of src/linear.rs.                            *)
(*                                                                         *)
(* Numbers of type f64 are modelled in fixed point: the integer n stands   *)
(* for n / ONE, every arithmetic operation rounds its exact result to the  *)
(* nearest representable value, as IEEE-754 does at a finer grain.         *)
(* Component types keep their real ranges (u8: 0..255, u16: 0..65535), so  *)
(* the lookup tables have their real lengths.                              *)
(***************************************************************************)
EXTENDS Integers, Sequences, FiniteSets, TLC

(***************************************************************************)
(* Bounds of the model.                                                    *)
(***************************************************************************)
\* Longest slice handed to a batch conversion.
MaxLen == 2
\* Number of sample values taken from a component type's range.
NumLevels == 5

(***************************************************************************)
(* f64 arithmetic.                                                         *)
(***************************************************************************)
\* The f64 value 1.0.
ONE == 10000

\* a / b rounded to nearest, for a >= 0 and b > 0.
RDiv(a, b) == (2 * a + b) \div (2 * b)

\* x * y on f64.
FMul(x, y) == RDiv(x * y, ONE)

\* r^5 on f64, by repeated multiplication.
Pow5(r) == FMul(FMul(FMul(FMul(r, r), r), r), r)

\* Largest r in lo..hi with r^5 <= y (Pow5 is non-decreasing).
RECURSIVE Root5Search(_, _, _)
Root5Search(y, lo, hi) ==
    IF lo = hi
    THEN lo
    ELSE IF Pow5((lo + hi + 1) \div 2) <= y
         THEN Root5Search(y, (lo + hi + 1) \div 2, hi)
         ELSE Root5Search(y, lo, ((lo + hi + 1) \div 2) - 1)

\* y^(1/5) for y in [0, 1].
Root5(y) == Root5Search(y, 0, ONE)

\* x.powf(2.4) for x in [0, 1]: x^2.4 = x^2 * (x^2)^(1/5).
powf24(x) == FMul(FMul(x, x), Root5(FMul(x, x)))

\* Faulty variant of to_linear: the power segment is not divided by 1.055.
to_linear_unscaled(s) ==
    IF 100000 * s <= 4045 * ONE
    THEN RDiv(s * 100, 1292)
    ELSE powf24(s + (55 * ONE) \div 1000)

\* fn to_linear(s: f64) -> f64, the sRGB transfer function.
\* s <= 0.04045 is compared exactly (both sides scaled by 100000);
\* s / 12.92 is s * 100 / 1292; 0.055 is 55 * ONE / 1000; / 1.055 is * 1000 / 1055.
to_linear(s) ==
    IF 100000 * s <= 4045 * ONE
    THEN RDiv(s * 100, 1292)
    ELSE powf24(RDiv((s + (55 * ONE) \div 1000) * 1000, 1055))

(***************************************************************************)
(* Component types and lookup tables.                                      *)
(***************************************************************************)
Components == {"u8", "u16"}

\* GammaComponent::max_value()
max_value(c) == IF c = "u8" THEN 255 ELSE 65535

\* Faulty variant of lut_entry: the sample is divided by the number of values, not by
\* the largest one.
lut_entry_over_count(c, i) == to_linear(RDiv(i * ONE, max_value(c) + 1))

\* The closure of make_lut: |i| to_linear(i as f64 / max_value() as f64)
lut_entry(c, i) == to_linear(RDiv(i * ONE, max_value(c)))

\* Faulty variant of collect_lut: the range stops at max_value(), one entry short.
collect_lut_short(c) == [k \in 1..max_value(c) |-> lut_entry(c, k - 1)]

\* (0..max_value() + 1).map(closure).collect(): a Vec of max_value() + 1 entries.
\* Vec index i is sequence index i + 1.
collect_lut(c) == [k \in 1..(max_value(c) + 1) |-> lut_entry(c, k - 1)]

\* make_lut is monomorphised per component type; it takes no argument and reads
\* no state, so each instance denotes one table.
make_lut_u8 == collect_lut("u8")

make_lut_u16 == collect_lut("u16")

\* P::make_lut() for a pixel type whose Component is c.
make_lut(c) == IF c = "u8" THEN make_lut_u8 ELSE make_lut_u16

\* lut[i] for a usize i; indexing past the end panics.
InBounds(lut, i) == i + 1 \in 1..Len(lut)

Index(lut, i) == lut[i + 1]

\* GammaComponent::to_linear for u8 and for u16: lut[*self as usize]
u8_to_linear(v, lut) == Index(lut, v)

u16_to_linear(v, lut) == Index(lut, v)

component_to_linear(c, v, lut) ==
    IF c = "u8" THEN u8_to_linear(v, lut) ELSE u16_to_linear(v, lut)

\* Faulty variant of a_unit: alpha is divided by max_value() + 1.
a_unit_over_count(c, a) == RDiv(a * ONE, max_value(c) + 1)

\* self.a.clone().into() / M::max_value() as f64
a_unit(c, a) == RDiv(a * ONE, max_value(c))

(***************************************************************************)
(* Pixel formats.  RGBA, BGRA, RGB and BGR pixels are records with named   *)
(* channels; GreyAlpha and Grey are tuple structs (self.0, self.1 are      *)
(* px[1], px[2]); "M" is a bare component used as a pixel.  A result of    *)
(* type RGBAPLU is a record [r, g, b, a]; a result of type f64 is wrapped  *)
(* as [v |-> x] so that the two output types can be told apart.            *)
(***************************************************************************)
AlphaFormats == {"RGBA", "BGRA", "GreyAlpha"}

PixelFormats == {"RGBA", "BGRA", "RGB", "BGR", "GreyAlpha", "Grey"}

\* Faulty variant of RGBA_to_linear: the colour channels are not premultiplied.
RGBA_to_linear_straight(c, px, lut) ==
    [r |-> component_to_linear(c, px.r, lut),
     g |-> component_to_linear(c, px.g, lut),
     b |-> component_to_linear(c, px.b, lut),
     a |-> a_unit(c, px.a)]

\* impl GammaPixel for RGBA<M>
RGBA_to_linear(c, px, lut) ==
    [r |-> FMul(component_to_linear(c, px.r, lut), a_unit(c, px.a)),
     g |-> FMul(component_to_linear(c, px.g, lut), a_unit(c, px.a)),
     b |-> FMul(component_to_linear(c, px.b, lut), a_unit(c, px.a)),
     a |-> a_unit(c, px.a)]

\* Faulty variant of BGRA_to_linear: the fields are read in memory order, so red and
\* blue change places.
BGRA_to_linear_swapped(c, px, lut) ==
    [r |-> FMul(component_to_linear(c, px.b, lut), a_unit(c, px.a)),
     g |-> FMul(component_to_linear(c, px.g, lut), a_unit(c, px.a)),
     b |-> FMul(component_to_linear(c, px.r, lut), a_unit(c, px.a)),
     a |-> a_unit(c, px.a)]

\* impl GammaPixel for BGRA<M>
BGRA_to_linear(c, px, lut) ==
    [r |-> FMul(component_to_linear(c, px.r, lut), a_unit(c, px.a)),
     g |-> FMul(component_to_linear(c, px.g, lut), a_unit(c, px.a)),
     b |-> FMul(component_to_linear(c, px.b, lut), a_unit(c, px.a)),
     a |-> a_unit(c, px.a)]

\* impl GammaPixel for RGB<M>
RGB_to_linear(c, px, lut) ==
    [r |-> component_to_linear(c, px.r, lut),
     g |-> component_to_linear(c, px.g, lut),
     b |-> component_to_linear(c, px.b, lut),
     a |-> ONE]

\* impl GammaPixel for BGR<M>
BGR_to_linear(c, px, lut) ==
    [r |-> component_to_linear(c, px.r, lut),
     g |-> component_to_linear(c, px.g, lut),
     b |-> component_to_linear(c, px.b, lut),
     a |-> ONE]

\* Faulty variant of GreyAlpha_to_linear: alpha is read from field 0, the grey sample.
GreyAlpha_to_linear_field0(c, px, lut) ==
    [r |-> FMul(component_to_linear(c, px[1], lut), a_unit(c, px[1])),
     g |-> FMul(component_to_linear(c, px[1], lut), a_unit(c, px[1])),
     b |-> FMul(component_to_linear(c, px[1], lut), a_unit(c, px[1])),
     a |-> a_unit(c, px[1])]

\* impl GammaPixel for lodepng::GreyAlpha<M>
GreyAlpha_to_linear(c, px, lut) ==
    [r |-> FMul(component_to_linear(c, px[1], lut), a_unit(c, px[2])),
     g |-> FMul(component_to_linear(c, px[1], lut), a_unit(c, px[2])),
     b |-> FMul(component_to_linear(c, px[1], lut), a_unit(c, px[2])),
     a |-> a_unit(c, px[2])]

\* Faulty variant of M_to_linear: the bare component is padded to a 4-field pixel.
M_to_linear_padded(c, px, lut) ==
    [r |-> component_to_linear(c, px, lut),
     g |-> component_to_linear(c, px, lut),
     b |-> component_to_linear(c, px, lut),
     a |-> ONE]

\* impl GammaPixel for M (a bare component): Output = f64
M_to_linear(c, px, lut) == [v |-> component_to_linear(c, px, lut)]

\* impl GammaPixel for lodepng::Grey<M>: Output = RGBAPLU
Grey_to_linear(c, px, lut) ==
    [r |-> component_to_linear(c, px[1], lut),
     g |-> component_to_linear(c, px[1], lut),
     b |-> component_to_linear(c, px[1], lut),
     a |-> ONE]

\* px.to_linear(&gamma_lut), dispatched on the pixel type.
px_to_linear(f, c, px, lut) ==
    CASE f = "RGBA" -> RGBA_to_linear(c, px, lut)
      [] f = "BGRA" -> BGRA_to_linear(c, px, lut)
      [] f = "RGB" -> RGB_to_linear(c, px, lut)
      [] f = "BGR" -> BGR_to_linear(c, px, lut)
      [] f = "GreyAlpha" -> GreyAlpha_to_linear(c, px, lut)
      [] f = "Grey" -> Grey_to_linear(c, px, lut)
      [] f = "M" -> M_to_linear(c, px, lut)

\* The component values px.to_linear uses as table indices.
LookupIndices(f, px) ==
    CASE f \in {"RGBA", "BGRA", "RGB", "BGR"} -> {px.r, px.g, px.b}
      [] f \in {"GreyAlpha", "Grey"} -> {px[1]}
      [] f = "M" -> {px}

\* The encoded alpha of a pixel of a format that has one.
AlphaOf(f, px) == IF f = "GreyAlpha" THEN px[2] ELSE px.a

\* Faulty variant of push: the mapped element is put at the front.
push_front(vec, x) == <<x>> \o vec

\* One step of .collect(): the mapped element is pushed at the end of the Vec.
push(vec, x) == Append(vec, x)

(***************************************************************************)
(* Inputs.  A component type's range is sampled at NumLevels values, cubic *)
(* in the sample number so that the samples are denser near black, where   *)
(* the linear segment of the transfer function lies; 0 and max_value are   *)
(* always among them.                                                      *)
(***************************************************************************)
LevelAt(c, k) ==
    ((k % NumLevels) * (k % NumLevels) * (k % NumLevels) * max_value(c))
        \div ((NumLevels - 1) * (NumLevels - 1) * (NumLevels - 1))

Levels(c) == {LevelAt(c, k) : k \in 0..(NumLevels - 1)}

\* Every pixel of format f whose channels are sample values.
Pixels(f, c) ==
    CASE f \in {"RGBA", "BGRA"} -> [r : Levels(c), g : Levels(c), b : Levels(c), a : Levels(c)]
      [] f \in {"RGB", "BGR"} -> [r : Levels(c), g : Levels(c), b : Levels(c)]
      [] f = "GreyAlpha" -> Levels(c) \X Levels(c)
      [] f = "Grey" -> {<<v>> : v \in Levels(c)}
      [] f = "M" -> Levels(c)

\* The pixel of format f whose channels are the given values.
MkPixel(f, r, g, b, a) ==
    CASE f \in {"RGBA", "BGRA"} -> [r |-> r, g |-> g, b |-> b, a |-> a]
      [] f \in {"RGB", "BGR"} -> [r |-> r, g |-> g, b |-> b]
      [] f = "GreyAlpha" -> <<g, a>>
      [] f = "Grey" -> <<g>>
      [] f = "M" -> g

\* A palette of NumLevels pixels with pairwise different channels, from which
\* the longer slices are drawn.
Palette(f, c) ==
    {MkPixel(f, LevelAt(c, k + 1), LevelAt(c, k), LevelAt(c, k + 2), LevelAt(c, k + 3)) :
        k \in 0..(NumLevels - 1)}

\* All sequences over S of length at most n.
SeqsUpTo(S, n) == UNION {[1..k -> S] : k \in 0..n}

\* The slices a batch conversion is called on: every one-pixel slice over the
\* sample grid, and every slice of at most MaxLen palette pixels.
BatchInputs(f, c) == {<<p>> : p \in Pixels(f, c)} \cup SeqsUpTo(Palette(f, c), MaxLen)

\* The slices of the repeated-call specification: one pixel with all channels
\* 0, or one pixel with all channels max_value.
RecallInputs(f, c) ==
    {<<MkPixel(f, 0, 0, 0, 0)>>,
     <<MkPixel(f, max_value(c), max_value(c), max_value(c), max_value(c))>>}

(***************************************************************************)
(* State.                                                                  *)
(*   pc        "idle" before the first call, "map" inside a batch          *)
(*             conversion, "done" after it returned, "panicked" after an   *)
(*             out-of-range index                                          *)
(*   entry     the entry point of the current call                         *)
(*   fmt, comp the pixel type P of the slice and its Component             *)
(*   input     the slice self                                              *)
(*   gamma_lut the local table of the call (<<>> when no call is active)   *)
(*   idx       position of self.iter() (1-based)                           *)
(*   out       the Vec being collected, then the returned Vec              *)
(*   memo      history variable: <<>> or one remembered finished call      *)
(*   l_*       make_lut's own iteration, see below                         *)
(***************************************************************************)
VARIABLES pc, entry, fmt, comp, input, gamma_lut, idx, out, memo,
          l_pc, l_comp, l_i, l_len, l_last, l_prev

bvars == <<pc, entry, fmt, comp, input, gamma_lut, idx, out, memo>>

lvars == <<l_pc, l_comp, l_i, l_len, l_last, l_prev>>

vars == <<pc, entry, fmt, comp, input, gamma_lut, idx, out, memo,
          l_pc, l_comp, l_i, l_len, l_last, l_prev>>

\* No batch conversion has been called yet.
BatchIdle ==
    /\ pc = "idle"
    /\ entry = "none"
    /\ fmt = "none"
    /\ comp = "none"
    /\ input = <<>>
    /\ gamma_lut = <<>>
    /\ idx = 0
    /\ out = <<>>
    /\ memo = <<>>

\* make_lut is not being stepped through.
LutOff ==
    /\ l_pc = "off"
    /\ l_comp = "none"
    /\ l_i = 0
    /\ l_len = 0
    /\ l_last = 0
    /\ l_prev = 0

Init == BatchIdle /\ LutOff

(***************************************************************************)
(* Batch conversions.                                                      *)
(***************************************************************************)
\* impl ToGLU for [M]: let gamma_lut = M::make_lut(); then the lazy map and a
\* fresh Vec for collect().
to_glu(c, inp) ==
    /\ pc \in {"idle", "done"}
    /\ pc' = "map"
    /\ entry' = "to_glu"
    /\ fmt' = "M"
    /\ comp' = c
    /\ input' = inp
    /\ gamma_lut' = make_lut(c)
    /\ idx' = 1
    /\ out' = <<>>
    /\ UNCHANGED memo
    /\ UNCHANGED lvars

\* Faulty variant of to_rgbaplu: the previous result is extended instead of a fresh
\* Vec being collected.
to_rgbaplu_reuse(f, c, inp) ==
    /\ pc \in {"idle", "done"}
    /\ pc' = "map"
    /\ entry' = "to_rgbaplu"
    /\ fmt' = f
    /\ comp' = c
    /\ input' = inp
    /\ gamma_lut' = make_lut(c)
    /\ idx' = 1
    /\ out' = out
    /\ UNCHANGED memo
    /\ UNCHANGED lvars

\* impl ToRGBAPLU for [P]: let gamma_lut = P::make_lut(); then the lazy map and
\* a fresh Vec for collect().
to_rgbaplu(f, c, inp) ==
    /\ pc \in {"idle", "done"}
    /\ pc' = "map"
    /\ entry' = "to_rgbaplu"
    /\ fmt' = f
    /\ comp' = c
    /\ input' = inp
    /\ gamma_lut' = make_lut(c)
    /\ idx' = 1
    /\ out' = <<>>
    /\ UNCHANGED memo
    /\ UNCHANGED lvars

\* self.iter().map(|px| px.to_linear(&gamma_lut)): the next pixel is mapped and
\* collected; an index past the end of the table panics.
map_next ==
    /\ pc = "map"
    /\ idx <= Len(input)
    /\ IF \A i \in LookupIndices(fmt, input[idx]) : InBounds(gamma_lut, i)
       THEN /\ out' = push(out, px_to_linear(fmt, comp, input[idx], gamma_lut))
            /\ idx' = idx + 1
            /\ pc' = pc
       ELSE /\ pc' = "panicked"
            /\ UNCHANGED <<out, idx>>
    /\ UNCHANGED <<entry, fmt, comp, input, gamma_lut, memo>>
    /\ UNCHANGED lvars

\* The iterator is exhausted: collect() returns the Vec, gamma_lut is dropped.
collect_return ==
    /\ pc = "map"
    /\ idx > Len(input)
    /\ pc' = "done"
    /\ gamma_lut' = <<>>
    /\ UNCHANGED <<entry, fmt, comp, input, idx, out, memo>>
    /\ UNCHANGED lvars

\* History only: the finished call is remembered, once.
Remember ==
    /\ pc = "done"
    /\ memo = <<>>
    /\ memo' = <<[entry |-> entry, fmt |-> fmt, comp |-> comp, input |-> input, out |-> out]>>
    /\ UNCHANGED <<pc, entry, fmt, comp, input, gamma_lut, idx, out>>
    /\ UNCHANGED lvars

\* The caller drops the returned Vec before it converts another slice.
discard ==
    /\ pc = "done"
    /\ pc' = "idle"
    /\ entry' = "none"
    /\ fmt' = "none"
    /\ comp' = "none"
    /\ input' = <<>>
    /\ idx' = 0
    /\ out' = <<>>
    /\ UNCHANGED <<gamma_lut, memo>>
    /\ UNCHANGED lvars

CallGlu ==
    /\ pc = "idle"
    /\ \E c \in Components : \E inp \in BatchInputs("M", c) : to_glu(c, inp)

CallRgbaplu ==
    /\ pc = "idle"
    /\ \E f \in PixelFormats : \E c \in Components :
           \E inp \in BatchInputs(f, c) : to_rgbaplu(f, c, inp)

Next == CallGlu \/ CallRgbaplu \/ map_next \/ collect_return \/ discard

Spec == Init /\ [][Next]_vars

\* Repeated calls while the caller still holds the previous result, with one
\* earlier call remembered.
RecallGlu == \E c \in Components : \E inp \in RecallInputs("M", c) : to_glu(c, inp)

RecallRgbaplu ==
    \E f \in PixelFormats : \E c \in Components :
        \E inp \in RecallInputs(f, c) : to_rgbaplu(f, c, inp)

NextRecall == RecallGlu \/ RecallRgbaplu \/ map_next \/ collect_return \/ Remember

SpecRecall == Init /\ [][NextRecall]_vars

(***************************************************************************)
(* make_lut, stepped through: the range iterator yields l_i, the closure   *)
(* maps it and collect() pushes the entry.  The Vec under construction is  *)
(* held as its length l_len and its last two entries l_prev, l_last.       *)
(***************************************************************************)
InitLut ==
    /\ BatchIdle
    /\ l_pc = "iter"
    /\ l_comp \in Components
    /\ l_i = 0
    /\ l_len = 0
    /\ l_last = 0
    /\ l_prev = 0

lut_next ==
    /\ l_pc = "iter"
    /\ l_i < max_value(l_comp) + 1
    /\ l_prev' = l_last
    /\ l_last' = lut_entry(l_comp, l_i)
    /\ l_len' = l_len + 1
    /\ l_i' = l_i + 1
    /\ UNCHANGED <<l_pc, l_comp>>
    /\ UNCHANGED bvars

lut_collected ==
    /\ l_pc = "iter"
    /\ l_i >= max_value(l_comp) + 1
    /\ l_pc' = "done"
    /\ UNCHANGED <<l_comp, l_i, l_len, l_last, l_prev>>
    /\ UNCHANGED bvars

NextLut == lut_next \/ lut_collected

SpecLut == InitLut /\ [][NextLut]_vars

(***************************************************************************)
(* Properties.                                                             *)
(***************************************************************************)
\* The pixels mapped so far, as positions of input and out.
Mapped == 1..Len(out)

\* The table P::make_lut() returns for the current pixel type.
Table == make_lut(comp)

IsScalar(o) == DOMAIN o = {"v"}

IsPixel(o) == DOMAIN o = {"r", "g", "b", "a"}

\* C1: in both batch entry points the output grows in step with the
\* iterator, ends with the length of the input, and its element i is the
\* linearization of input element i with the table of the component type;
\* to_glu is the entry point of bare components, to_rgbaplu of the others.
C1_Elementwise ==
    /\ pc = "map" => Len(out) = idx - 1 /\ Len(out) <= Len(input)
    /\ pc = "done" => Len(out) = Len(input)
    /\ pc \in {"map", "done"} =>
           /\ entry \in {"to_glu", "to_rgbaplu"}
           /\ entry = "to_glu" <=> fmt = "M"
           /\ \A i \in Mapped : out[i] = px_to_linear(fmt, comp, input[i], Table)

\* A finished conversion of two different pixels with different results, in
\* input order.
C1_Witness ==
    /\ pc = "done"
    /\ Len(input) = 2
    /\ Len(out) = 2
    /\ input[1] # input[2]
    /\ out[1] # out[2]
    /\ out[1] = px_to_linear(fmt, comp, input[1], Table)

\* C1, the empty slice: a finished conversion of no pixels returned no
\* elements.
C1_EmptyWitness == pc = "done" /\ input = <<>> /\ out = <<>>

\* C2: once make_lut has collected its table, the table has max_value + 1
\* entries and ends with 1.0; its first entry is 0.0; every entry is at least
\* its predecessor; entry i is s / 12.92 for s = i / max_value <= 0.04045 and
\* the power segment otherwise; and it is the table the batch conversions use.
C2_TableShape ==
    /\ l_pc = "done" =>
           /\ l_len = max_value(l_comp) + 1
           /\ l_last = ONE
           /\ Len(make_lut(l_comp)) = l_len
    /\ l_len = 1 => l_last = 0
    /\ l_len >= 2 => l_prev <= l_last
    /\ l_len >= 1 =>
           /\ l_last = Index(make_lut(l_comp), l_len - 1)
           /\ IF 100000 * RDiv((l_len - 1) * ONE, max_value(l_comp)) <= 4045 * ONE
              THEN l_last = RDiv(RDiv((l_len - 1) * ONE, max_value(l_comp)) * 100, 1292)
              ELSE l_last =
                       powf24(RDiv((RDiv((l_len - 1) * ONE, max_value(l_comp))
                                        + (55 * ONE) \div 1000) * 1000, 1055))

\* The 16-bit table has been collected in full.
C2_Witness ==
    /\ l_pc = "done"
    /\ l_comp = "u16"
    /\ l_len = 65536
    /\ l_last = ONE

\* C3: a pixel with an alpha channel whose encoded alpha is 0 is mapped to
\* red = green = blue = alpha = 0.0.
C3_TransparentIsZero ==
    \A i \in Mapped :
        (fmt \in AlphaFormats /\ AlphaOf(fmt, input[i]) = 0) =>
            out[i] = [r |-> 0, g |-> 0, b |-> 0, a |-> 0]

\* A 16-bit RGBA pixel with all colour channels at their maximum and alpha 0
\* has been mapped.
C3_Witness ==
    /\ pc = "done"
    /\ fmt = "RGBA"
    /\ comp = "u16"
    /\ Len(out) = 1
    /\ input[1] = [r |-> 65535, g |-> 65535, b |-> 65535, a |-> 0]
    /\ out[1].r = 0

\* C4: a pixel with an alpha channel whose encoded alpha is max_value is
\* mapped to alpha 1.0 and to the plain table entries of its colour channels;
\* an opaque RGBA pixel gives what the RGB pixel of the same channels gives.
C4_OpaqueIsPlain ==
    \A i \in Mapped :
        (fmt \in AlphaFormats /\ AlphaOf(fmt, input[i]) = max_value(comp)) =>
            /\ out[i].a = ONE
            /\ fmt \in {"RGBA", "BGRA"} =>
                   /\ out[i].r = Index(Table, input[i].r)
                   /\ out[i].g = Index(Table, input[i].g)
                   /\ out[i].b = Index(Table, input[i].b)
            /\ fmt = "RGBA" =>
                   out[i] = RGB_to_linear(comp, [r |-> input[i].r, g |-> input[i].g,
                                                 b |-> input[i].b], Table)
            /\ fmt = "GreyAlpha" =>
                   /\ out[i].r = Index(Table, input[i][1])
                   /\ out[i].g = Index(Table, input[i][1])
                   /\ out[i].b = Index(Table, input[i][1])

\* An opaque 8-bit RGBA pixel with three different colour channels, none of
\* them at an end of the range, has been mapped.
C4_Witness ==
    /\ pc = "done"
    /\ fmt = "RGBA"
    /\ comp = "u8"
    /\ Len(out) = 1
    /\ input[1].a = 255
    /\ 0 < out[1].r
    /\ out[1].r < out[1].g
    /\ out[1].g < out[1].b
    /\ out[1].b < ONE

\* C5: no conversion panics: while a batch conversion maps, its table has
\* max_value + 1 entries and every component value of the slice that is used
\* as an index is at most max_value and inside the table.
C5_IndexInRange ==
    /\ pc # "panicked"
    /\ pc = "map" =>
           /\ Len(gamma_lut) = max_value(comp) + 1
           /\ \A i \in 1..Len(input) :
                  \A v \in LookupIndices(fmt, input[i]) :
                      /\ v \in 0..max_value(comp)
                      /\ InBounds(gamma_lut, v)

\* A 16-bit pixel with a channel at max_value, the last table index, has been
\* mapped and the conversion returned.
C5_Witness ==
    /\ pc = "done"
    /\ comp = "u16"
    /\ fmt = "BGR"
    /\ Len(out) = 1
    /\ input[1].b = 65535
    /\ out[1].b = ONE

C7_OrderIndependent ==
    \A i \in Mapped :
        /\ fmt = "BGRA" => out[i] = RGBA_to_linear(comp, input[i], Table)
        /\ fmt = "BGR" => out[i] = RGB_to_linear(comp, input[i], Table)
        /\ fmt \in {"RGBA", "BGRA"} =>
               /\ out[i].r = FMul(Index(Table, input[i].r), out[i].a)
               /\ out[i].g = FMul(Index(Table, input[i].g), out[i].a)
               /\ out[i].b = FMul(Index(Table, input[i].b), out[i].a)
        /\ fmt \in {"RGB", "BGR"} =>
               /\ out[i].r = Index(Table, input[i].r)
               /\ out[i].g = Index(Table, input[i].g)
               /\ out[i].b = Index(Table, input[i].b)

\* A BGRA pixel whose red and blue differ, and whose alpha is neither 0 nor
\* max_value, has been mapped to different red and blue.
C7_Witness ==
    /\ pc = "done"
    /\ fmt = "BGRA"
    /\ Len(out) = 1
    /\ input[1].r < input[1].b
    /\ 0 < input[1].a
    /\ input[1].a < max_value(comp)
    /\ out[1].r < out[1].b

\* C9: a grayscale+alpha pixel is mapped to red = green = blue =
\* table[gray] * (alpha / max_value) and alpha = alpha / max_value, with the
\* max_value of the component type; a Grey pixel is mapped to red = green =
\* blue = table[gray] and alpha = 1.0.
C9_GreyChannelsEqual ==
    \A i \in Mapped :
        /\ fmt = "GreyAlpha" =>
               /\ out[i].a = RDiv(input[i][2] * ONE, max_value(comp))
               /\ out[i].r = FMul(Index(Table, input[i][1]), out[i].a)
               /\ out[i].g = out[i].r
               /\ out[i].b = out[i].r
        /\ fmt = "Grey" =>
               /\ out[i].a = ONE
               /\ out[i].r = Index(Table, input[i][1])
               /\ out[i].g = out[i].r
               /\ out[i].b = out[i].r

\* A 16-bit grayscale+alpha pixel with partial alpha, different from its grey
\* sample, has been mapped to a colour strictly between 0.0 and its alpha.
C9_Witness ==
    /\ pc = "done"
    /\ fmt = "GreyAlpha"
    /\ comp = "u16"
    /\ Len(out) = 1
    /\ input[1][1] # input[1][2]
    /\ 0 < out[1].r
    /\ out[1].r < out[1].a
    /\ out[1].a < ONE

\* C10: every 4-field pixel produced has 0 <= red, green, blue <= alpha <= 1.
C10_Premultiplied ==
    \A i \in Mapped :
        fmt # "M" =>
            /\ 0 <= out[i].r /\ out[i].r <= out[i].a
            /\ 0 <= out[i].g /\ out[i].g <= out[i].a
            /\ 0 <= out[i].b /\ out[i].b <= out[i].a
            /\ out[i].a <= ONE

\* A BGRA pixel with partial alpha has been mapped to a colour strictly
\* between 0.0 and its alpha.
C10_Witness ==
    /\ pc = "done"
    /\ fmt = "BGRA"
    /\ Len(out) = 1
    /\ 0 < out[1].g
    /\ out[1].g < out[1].a
    /\ out[1].a < ONE

\* The conversion has mapped every pixel of its slice.
Finished == pc = "done" \/ (pc = "map" /\ idx > Len(input))

\* The current call has the arguments of the remembered call.
SameCall ==
    /\ memo # <<>>
    /\ memo[1].entry = entry
    /\ memo[1].fmt = fmt
    /\ memo[1].comp = comp
    /\ memo[1].input = input

\* C8: every call starts from its arguments alone (a table built by
\* make_lut for the component type, a fresh Vec, the iterator at the start);
\* while it maps, the table and the slice stay as they are; the table is
\* dropped on return and the slice is returned unchanged; and a call with the
\* arguments of a remembered earlier call ends with the remembered output.
C8_Stateless ==
    /\ [][/\ (pc # "map" /\ pc' = "map") =>
                 /\ gamma_lut' = make_lut(comp')
                 /\ out' = <<>>
                 /\ idx' = 1
          /\ (pc = "map" /\ pc' = "map") =>
                 /\ gamma_lut' = gamma_lut
                 /\ input' = input
          /\ (pc = "map" /\ pc' = "done") =>
                 /\ gamma_lut' = <<>>
                 /\ input' = input
                 /\ out' = out]_vars
    /\ [](SameCall /\ Finished => out = memo[1].out)

\* A later call with the arguments of the remembered call has mapped its
\* slice (the remembered call had returned before a call could start again).
C8_Witness ==
    /\ pc = "map"
    /\ idx > Len(input)
    /\ SameCall
    /\ fmt = "RGBA"
    /\ comp = "u16"
    /\ Len(out) = 1
    /\ out = memo[1].out

====
